---- MODULE Spec2Model ----
(***************************************************************************)
(* Model of gpio_sound_player.py: the SoundPlayer class.                   *)
(*                                                                         *)
(* The pygame mixer is a finite pool of channels.  A pygame Channel object *)
(* is a handle on a channel NUMBER: get_busy() and stop() act on whatever  *)
(* the channel with that number is emitting now, not on the playback that  *)
(* was started when the handle was obtained.  Sound.play() takes the       *)
(* lowest-numbered channel that is not busy and returns None when every    *)
(* channel is busy.  A playback ends by itself at any time.                *)
(***************************************************************************)
EXTENDS Integers, Sequences, FiniteSets, TLC

\* ---------------------------------------------------------------- bounds
NumButtons == 3
NumChannels == 2
MaxPriority == 2

Buttons == 0..(NumButtons - 1)
Channels == 0..(NumChannels - 1)
Silent == -1

Modes == {"interrupt", "overlay", "exclusive"}
SelfBehaviors == {"ignore", "restart", "queue"}
Configs == [mode : Modes, self : SelfBehaviors, priority : 1..MaxPriority]

\* config = self.track_config.get(button_index, {...})
DefaultConfig == [mode |-> "overlay", self |-> "restart", priority |-> 1]

VARIABLES
    track_config,       \* dict button -> config; a button may have no entry
    sounds,             \* sounds[i]: TRUE a loaded Sound, FALSE None
    emitting,           \* mixer: channel -> button whose sample it emits, or Silent
    started,            \* mixer: the busy channels, oldest playback first
    currently_playing,  \* dict kept as its item list, in insertion order
    running,            \* FALSE once an exception has ended run()
    button_states,      \* button_states[i]: TRUE = not pressed
    level,              \* last GPIO.input sample of each pin (TRUE = high)
    pollIdx,            \* position of the for loop of check_buttons
    trig                \* the last play_sound call: argument, outcome, state before

vars == <<track_config, sounds, emitting, started, currently_playing, running,
          button_states, level, pollIdx, trig>>

\* ------------------------------------------------- the mixer (pygame)
AllSilent == [c \in Channels |-> Silent]

\* channel.get_busy()
GetBusy(em, c) == em[c] # Silent

\* channel.stop()
ChannelStop(em, c) == [em EXCEPT ![c] = Silent]

FreeChannels(em) == {c \in Channels : em[c] = Silent}

\* the channel Sound.play() takes
FindChannel(em) == CHOOSE c \in FreeChannels(em) : \A d \in FreeChannels(em) : c <= d

\* the start order of the channels still busy under em
StartedAfter(st, em) == SelectSeq(st, LAMBDA c : em[c] # Silent)

\* ------------------------------------------- the dict currently_playing
CpKeys(cp) == {cp[k].btn : k \in 1..Len(cp)}

CpGet(cp, b) == (CHOOSE k \in 1..Len(cp) : cp[k].btn = b)

CpChannel(cp, b) == cp[CpGet(cp, b)].ch

\* self.currently_playing[b] = c
CpSet(cp, b, c) ==
    IF b \in CpKeys(cp)
    THEN [cp EXCEPT ![CpGet(cp, b)] = [btn |-> b, ch |-> c]]
    ELSE Append(cp, [btn |-> b, ch |-> c])

\* del self.currently_playing[b] for every b of rem
CpDel(cp, rem) == SelectSeq(cp, LAMBDA e : e.btn \notin rem)

\* ------------------------------------------------------- SoundPlayer
\* mutant of StopAllSounds: stops the channels of the entries one by one
\* instead of the whole mixer
StopAllSounds_TrackedOnly(cp, em) ==
    [cp |-> <<>>,
     em |-> [c \in Channels |->
                IF \E k \in 1..Len(cp) : cp[k].ch = c THEN Silent ELSE em[c]]]

\* stop_all_sounds: pygame.mixer.stop(); self.currently_playing.clear()
StopAllSounds(cp, em) == [cp |-> <<>>, em |-> AllSilent]

\* the for loop of stop_lower_priority_sounds, from item k on; rem is to_remove.
\* self.track_config[btn_idx] raises KeyError for a button without an entry.
RECURSIVE StopLowerWalk(_, _, _, _, _)
StopLowerWalk(cp, k, em, rem, priority) ==
    IF k > Len(cp)
    THEN [em |-> em, rem |-> rem, err |-> FALSE]
    ELSE IF ~GetBusy(em, cp[k].ch)
    THEN StopLowerWalk(cp, k + 1, em, rem, priority)
    ELSE IF cp[k].btn \notin DOMAIN track_config
    THEN [em |-> em, rem |-> rem, err |-> TRUE]
    ELSE IF track_config[cp[k].btn].priority < priority
    THEN StopLowerWalk(cp, k + 1, ChannelStop(em, cp[k].ch),
                       rem \cup {cp[k].btn}, priority)
    ELSE StopLowerWalk(cp, k + 1, em, rem, priority)

\* stop_lower_priority_sounds(priority)
StopLowerPrioritySounds(cp, em, priority) ==
    LET w == StopLowerWalk(cp, 1, em, {}, priority)
    IN  [cp |-> CpDel(cp, w.rem), em |-> w.em, err |-> w.err]

\* mutant of IsAnythingPlaying: the get_busy test of the clean-up inverted
IsAnythingPlaying_Inverted(cp, em) ==
    LET kept == SelectSeq(cp, LAMBDA e : ~GetBusy(em, e.ch))
    IN  [cp |-> kept, any |-> Len(kept) > 0]

\* is_anything_playing(): drops the entries whose channel is not busy
IsAnythingPlaying(cp, em) ==
    LET kept == SelectSeq(cp, LAMBDA e : GetBusy(em, e.ch))
    IN  [cp |-> kept, any |-> Len(kept) > 0]

ConfigOf(b) == IF b \in DOMAIN track_config THEN track_config[b] ELSE DefaultConfig

\* mutant of SelfStep: "restart" leaves the old playback to the later steps
SelfStep_RestartKeepsPlaying(cp, em, b, self_behavior) ==
    IF b \in CpKeys(cp) /\ GetBusy(em, CpChannel(cp, b)) /\ self_behavior = "ignore"
    THEN [em |-> em, abort |-> TRUE]
    ELSE [em |-> em, abort |-> FALSE]

\* mutant of SelfStep: "ignore" falls through like "queue"
SelfStep_IgnoreFallsThrough(cp, em, b, self_behavior) ==
    IF b \in CpKeys(cp) /\ GetBusy(em, CpChannel(cp, b)) /\ self_behavior = "restart"
    THEN [em |-> ChannelStop(em, CpChannel(cp, b)), abort |-> FALSE]
    ELSE [em |-> em, abort |-> FALSE]

\* lines 150-160: the "already playing" step.  abort: the trigger returns here.
SelfStep(cp, em, b, self_behavior) ==
    IF b \in CpKeys(cp) /\ GetBusy(em, CpChannel(cp, b))
    THEN IF self_behavior = "ignore"
         THEN [em |-> em, abort |-> TRUE]
         ELSE IF self_behavior = "restart"
         THEN [em |-> ChannelStop(em, CpChannel(cp, b)), abort |-> FALSE]
         ELSE [em |-> em, abort |-> FALSE]
    ELSE [em |-> em, abort |-> FALSE]

\* mutant of ModeStep: the exclusive branch cleans up but never returns early
ModeStep_NoBlock(cp, em, mode, priority) ==
    IF mode = "interrupt"
    THEN [cp |-> <<>>, em |-> AllSilent, stop |-> "no"]
    ELSE IF mode = "exclusive"
    THEN [cp |-> IsAnythingPlaying(cp, em).cp, em |-> em, stop |-> "no"]
    ELSE LET r == StopLowerPrioritySounds(cp, em, priority)
         IN  [cp |-> r.cp, em |-> r.em, stop |-> IF r.err THEN "error" ELSE "no"]

\* lines 162-172: interaction with the other sounds
ModeStep(cp, em, mode, priority) ==
    IF mode = "interrupt"
    THEN LET r == StopAllSounds(cp, em)
         IN  [cp |-> r.cp, em |-> r.em, stop |-> "no"]
    ELSE IF mode = "exclusive"
    THEN LET r == IsAnythingPlaying(cp, em)
         IN  [cp |-> r.cp, em |-> em, stop |-> IF r.any THEN "blocked" ELSE "no"]
    ELSE IF mode = "overlay"
    THEN LET r == StopLowerPrioritySounds(cp, em, priority)
         IN  [cp |-> r.cp, em |-> r.em, stop |-> IF r.err THEN "error" ELSE "no"]
    ELSE [cp |-> cp, em |-> em, stop |-> "no"]

\* mutant of StartStep: with no free channel the sample takes channel 0 over
StartStep_Forced(cp, em, b) ==
    LET c == IF FreeChannels(em) = {} THEN 0 ELSE FindChannel(em)
    IN  [cp |-> CpSet(cp, b, c), em |-> [em EXCEPT ![c] = b],
         result |-> "played", ch |-> c]

\* lines 174-180: channel = self.sounds[b].play()
StartStep(cp, em, b) ==
    IF FreeChannels(em) = {}
    THEN [cp |-> cp, em |-> em, result |-> "dropped", ch |-> Silent]
    ELSE LET c == FindChannel(em)
         IN  [cp |-> CpSet(cp, b, c), em |-> [em EXCEPT ![c] = b],
              result |-> "played", ch |-> c]

Outcome(res, cp, em, atCp, atEm, ch) ==
    [result |-> res, cp |-> cp, em |-> em, atCp |-> atCp, atEm |-> atEm, ch |-> ch]

\* mutant of PlaySound: the sample is looked at only when it is to be played,
\* after the self-behaviour and interaction-mode steps
PlaySound_SampleCheckedLate(cp, em, b) ==
    LET config == ConfigOf(b)
        s == SelfStep(cp, em, b, config.self)
    IN  IF s.abort
        THEN Outcome("ignored", cp, em, cp, em, Silent)
        ELSE LET m == ModeStep(cp, s.em, config.mode, config.priority)
             IN  IF m.stop # "no"
                 THEN Outcome(m.stop, m.cp, m.em, m.cp, m.em, Silent)
                 ELSE IF b >= Len(sounds) \/ ~sounds[b + 1]
                 THEN Outcome("no_sound", m.cp, m.em, m.cp, m.em, Silent)
                 ELSE LET p == StartStep(m.cp, m.em, b)
                      IN  Outcome(p.result, p.cp, p.em, m.cp, m.em, p.ch)

\* play_sound(button_index), from the state (cp, em).  atCp, atEm: the state
\* at the start attempt of line 175 (meaningful when it is reached).
PlaySound(cp, em, b) ==
    IF b >= Len(sounds) \/ ~sounds[b + 1]
    THEN Outcome("no_sound", cp, em, cp, em, Silent)
    ELSE LET config == ConfigOf(b)
             s == SelfStep(cp, em, b, config.self)
         IN  IF s.abort
             THEN Outcome("ignored", cp, em, cp, em, Silent)
             ELSE LET m == ModeStep(cp, s.em, config.mode, config.priority)
                  IN  IF m.stop # "no"
                      THEN Outcome(m.stop, m.cp, m.em, m.cp, m.em, Silent)
                      ELSE LET p == StartStep(m.cp, m.em, b)
                           IN  Outcome(p.result, p.cp, p.em, m.cp, m.em, p.ch)

NoTrig == [button |-> Silent, result |-> "none", cp |-> <<>>, em |-> AllSilent,
           atCp |-> <<>>, atEm |-> AllSilent, ch |-> Silent]

\* the state change of one play_sound(b) call.  An exception leaves
\* play_sound, check_buttons and run(); cleanup() then quits the mixer.
DoPlaySound(b) ==
    \E o \in {PlaySound(currently_playing, emitting, b)} :
        /\ trig' = [button |-> b, result |-> o.result,
                    cp |-> currently_playing, em |-> emitting,
                    atCp |-> o.atCp, atEm |-> o.atEm, ch |-> o.ch]
        /\ currently_playing' = o.cp
        /\ emitting' = IF o.result = "error" THEN AllSilent ELSE o.em
        /\ started' = IF o.result = "error" THEN <<>>
                      ELSE LET st == StartedAfter(started, o.atEm)
                           IN  IF o.result = "played" THEN Append(st, o.ch) ELSE st
        /\ running' = (o.result # "error")

\* ------------------------------------------------------------- actions
\* a press edge of button b reaches play_sound (check_buttons, line 191)
Trigger(b) ==
    /\ running
    /\ DoPlaySound(b)
    /\ UNCHANGED <<track_config, sounds, button_states, level, pollIdx>>

\* the playback on channel c ends by itself.  Two playbacks of the same
\* sample have the same length: the older one ends first.
Finish(c) ==
    /\ running
    /\ emitting[c] # Silent
    /\ \A k \in 1..Len(started) :
          started[k] = c \/ emitting[started[k]] # emitting[c]
          \/ \E j \in 1..(k - 1) : started[j] = c
    /\ emitting' = [emitting EXCEPT ![c] = Silent]
    /\ started' = SelectSeq(started, LAMBDA d : d # c)
    /\ trig' = NoTrig
    /\ UNCHANGED <<track_config, sounds, currently_playing, running,
                   button_states, level, pollIdx>>

\* track_config: any table; load_sounds: any file may fail to load
TrackConfigs ==
    UNION {[D -> Configs] : D \in SUBSET Buttons}

\* The arbitration never reads a button's number, only its table entry and
\* its sample: tables are enumerated up to a renumbering of the buttons.
ModeNum(m) == CASE m = "interrupt" -> 0 [] m = "overlay" -> 1 [] OTHER -> 2
SelfNum(s) == CASE s = "ignore" -> 0 [] s = "restart" -> 1 [] OTHER -> 2
Rank(tc, snd, b) ==
    (IF snd[b + 1] THEN 1 ELSE 0)
    + 2 * (IF b \notin DOMAIN tc THEN 0
           ELSE tc[b].priority + MaxPriority * (SelfNum(tc[b].self) + 3 * ModeNum(tc[b].mode)))
Canonical(tc, snd) ==
    \A b \in Buttons : b + 1 \in Buttons => Rank(tc, snd, b) <= Rank(tc, snd, b + 1)

Init ==
    /\ track_config \in TrackConfigs
    /\ sounds \in [1..NumButtons -> BOOLEAN]
    /\ Canonical(track_config, sounds)
    /\ emitting = AllSilent
    /\ started = <<>>
    /\ currently_playing = <<>>
    /\ running = TRUE
    /\ button_states = [i \in Buttons |-> TRUE]
    /\ level = [i \in Buttons |-> TRUE]
    /\ pollIdx = 0
    /\ trig = NoTrig

\* ------------------------------------------------- the poll loop
\* mutant of JustPressed: the remembered state is not consulted
JustPressed_LevelTriggered(current_state, button_state) == ~current_state

\* line 188: button just pressed (was released, now pressed)
JustPressed(current_state, button_state) == ~current_state /\ button_state

\* line 193: button just released (was pressed, now released)
JustReleased(current_state, button_state) == current_state /\ ~button_state

\* mutant of CheckButton: the pins are visited from the last to the first
CheckButton_Descending(current_state) ==
    LET i == pollIdx
    IN  /\ running
        /\ level' = [level EXCEPT ![i] = current_state]
        /\ IF JustPressed(current_state, button_states[i])
           THEN /\ DoPlaySound(i)
                /\ button_states' = IF running' THEN [button_states EXCEPT ![i] = FALSE]
                                    ELSE button_states
           ELSE /\ button_states' = IF JustReleased(current_state, button_states[i])
                                    THEN [button_states EXCEPT ![i] = TRUE]
                                    ELSE button_states
                /\ trig' = NoTrig
                /\ UNCHANGED <<emitting, started, currently_playing, running>>
        /\ pollIdx' = IF running' THEN (i + NumButtons - 1) % NumButtons ELSE i
        /\ UNCHANGED <<track_config, sounds>>

\* One iteration of the for loop of check_buttons, for pin pollIdx, GPIO.input
\* returning current_state.  After the last pin run() sleeps and starts over.
\* An exception of play_sound ends the loop before line 192.
CheckButton(current_state) ==
    LET i == pollIdx
    IN  /\ running
        /\ level' = [level EXCEPT ![i] = current_state]
        /\ IF JustPressed(current_state, button_states[i])
           THEN /\ DoPlaySound(i)
                /\ button_states' = IF running' THEN [button_states EXCEPT ![i] = FALSE]
                                    ELSE button_states
           ELSE /\ button_states' = IF JustReleased(current_state, button_states[i])
                                    THEN [button_states EXCEPT ![i] = TRUE]
                                    ELSE button_states
                /\ trig' = NoTrig
                /\ UNCHANGED <<emitting, started, currently_playing, running>>
        /\ pollIdx' = IF running' THEN (i + 1) % NumButtons ELSE i
        /\ UNCHANGED <<track_config, sounds>>

\* self.track_config as the program sets it (buttons 0..4)
ProgramConfig ==
    <<[mode |-> "interrupt", self |-> "ignore", priority |-> 3],
      [mode |-> "interrupt", self |-> "ignore", priority |-> 1],
      [mode |-> "overlay", self |-> "restart", priority |-> 2],
      [mode |-> "overlay", self |-> "queue", priority |-> 1],
      [mode |-> "exclusive", self |-> "ignore", priority |-> 5]>>

\* the program's table, for any NumButtons of its buttons kept in their order
ProgramTables ==
    {[b \in Buttons |-> ProgramConfig[f[b]]] :
        f \in {g \in [Buttons -> 1..Len(ProgramConfig)] :
                  \A b \in Buttons : b + 1 \in Buttons => g[b] < g[b + 1]}}

InitPoll ==
    /\ track_config \in ProgramTables
    /\ sounds \in [1..NumButtons -> BOOLEAN]
    /\ emitting = AllSilent
    /\ started = <<>>
    /\ currently_playing = <<>>
    /\ running = TRUE
    /\ button_states = [i \in Buttons |-> TRUE]
    /\ level = [i \in Buttons |-> TRUE]
    /\ pollIdx = 0
    /\ trig = NoTrig

NextPoll ==
    \/ \E current_state \in BOOLEAN : CheckButton(current_state)
    \/ \E c \in Channels : Finish(c)

SpecPoll == InitPoll /\ [][NextPoll]_vars

\* The table of the scenario of spec section 8: sources 0, 1 and 4.  Source 4
\* is the last button here; a button in between has no entry and no sample.
Source4 == NumButtons - 1
ScenarioButtons == {0, 1, Source4}
ScenarioConfig ==
    [b \in ScenarioButtons |->
        IF b = 0 THEN [mode |-> "interrupt", self |-> "ignore", priority |-> 3]
        ELSE IF b = 1 THEN [mode |-> "overlay", self |-> "restart", priority |-> 1]
        ELSE [mode |-> "exclusive", self |-> "ignore", priority |-> 5]]

InitScenario ==
    /\ track_config = ScenarioConfig
    /\ sounds = [i \in 1..NumButtons |-> (i - 1) \in ScenarioButtons]
    /\ emitting = AllSilent
    /\ started = <<>>
    /\ currently_playing = <<>>
    /\ running = TRUE
    /\ button_states = [i \in Buttons |-> TRUE]
    /\ level = [i \in Buttons |-> TRUE]
    /\ pollIdx = 0
    /\ trig = NoTrig

\* the program's table with any of its entries left out (line 143 provides
\* for a button without an entry)
ProgramTablesWithGaps ==
    {[b \in D |-> t[b]] : t \in ProgramTables, D \in SUBSET Buttons}

InitPollGaps ==
    /\ track_config \in ProgramTablesWithGaps
    /\ sounds \in [1..NumButtons -> BOOLEAN]
    /\ emitting = AllSilent
    /\ started = <<>>
    /\ currently_playing = <<>>
    /\ running = TRUE
    /\ button_states = [i \in Buttons |-> TRUE]
    /\ level = [i \in Buttons |-> TRUE]
    /\ pollIdx = 0
    /\ trig = NoTrig

\* the poll loop over these tables
SpecPollGaps == InitPollGaps /\ [][NextPoll]_vars

Next ==
    \/ \E b \in Buttons : Trigger(b)
    \/ \E c \in Channels : Finish(c)

Spec == Init /\ [][Next]_vars

\* the scenario table under the poll loop
SpecScenario == InitScenario /\ [][NextPoll]_vars

TypeOK ==
    /\ \A c \in Channels : emitting[c] \in Buttons \cup {Silent}
    /\ \A k \in 1..Len(currently_playing) :
          currently_playing[k].btn \in Buttons /\ currently_playing[k].ch \in Channels

\* ------------------------------------------------------------ claims
\* what the mixer really emits
Playing(em, b) == \E c \in Channels : em[c] = b
ChannelsOf(em, b) == {c \in Channels : em[c] = b}

\* the last step was a play_sound call that got as far as the start attempt
ReachedStart == trig.result \in {"played", "dropped"}

\* C1: after play_sound(s) of an overlay button s with priority p has run its
\* overlay step, every other button that was really playing with priority >= p
\* still plays on the same channel, and every button that was playing with
\* priority < p is silent and gone from currently_playing.
C1_OverlayPreemption ==
    (ReachedStart /\ ConfigOf(trig.button).mode = "overlay") =>
        \A o \in Buttons \ {trig.button} :
            Playing(trig.em, o) =>
                IF ConfigOf(o).priority >= ConfigOf(trig.button).priority
                THEN \A c \in ChannelsOf(trig.em, o) : emitting[c] = o
                ELSE ~Playing(emitting, o) /\ o \notin CpKeys(currently_playing)

\* the last step was a play_sound call for a button that has a sample
Arbitrated == trig.result \notin {"none", "no_sound"}

\* the entries of cp whose channel is busy under em
LiveEntries(cp, em) == {cp[k] : k \in {j \in 1..Len(cp) : GetBusy(em, cp[j].ch)}}
Entries(cp) == {cp[k] : k \in 1..Len(cp)}

\* b has an assignment and the playback it recorded is still emitting
ReallyBusy(cp, em, b) == b \in CpKeys(cp) /\ em[CpChannel(cp, b)] = b

\* C2: play_sound(s) of an exclusive button s while another button is playing
\* is aborted and changes nothing: no channel is stopped or started and every
\* live assignment, that of s included, is kept.
C2_ExclusiveBlockedUntouched ==
    (/\ Arbitrated
     /\ ConfigOf(trig.button).mode = "exclusive"
     /\ \E o \in Buttons \ {trig.button} : Playing(trig.em, o)) =>
        /\ trig.result \in {"blocked", "ignored"}
        /\ emitting = trig.em
        /\ LiveEntries(trig.cp, trig.em) \subseteq Entries(currently_playing)

\* C3: play_sound(s) of a button s with self-behaviour restart, called while s
\* is playing, ends with s holding an assignment to a playback started by this
\* call, the old playback being stopped.
C3_RestartReacquires ==
    (/\ Arbitrated
     /\ ConfigOf(trig.button).self = "restart"
     /\ Playing(trig.em, trig.button)) =>
        /\ trig.result = "played"
        /\ ReallyBusy(currently_playing, emitting, trig.button)
        /\ CpChannel(currently_playing, trig.button) = trig.ch
        /\ ChannelsOf(emitting, trig.button) = {trig.ch}

\* C4: play_sound(s) of a button s with self-behaviour ignore, called while the
\* playback of s is still emitting, returns as "ignored" and changes neither
\* currently_playing nor any channel.
C4_IgnoreIsNoOp ==
    (/\ Arbitrated
     /\ ConfigOf(trig.button).self = "ignore"
     /\ Playing(trig.em, trig.button)) =>
        /\ trig.result = "ignored"
        /\ currently_playing = trig.cp
        /\ emitting = trig.em

\* C4 witness: an ignore button was triggered while it and another button played
C4_Witness ==
    /\ Arbitrated
    /\ ConfigOf(trig.button).self = "ignore"
    /\ Playing(trig.em, trig.button)
    /\ \E o \in Buttons \ {trig.button} : Playing(trig.em, o)
    /\ trig.result = "ignored"

\* C5: when play_sound(s) of an interrupt button s reaches the start attempt,
\* no assignment is left and no channel emits; the start succeeds, and after the
\* call s is the only entry of currently_playing and the only sample emitted.
C5_InterruptClearsAll ==
    (ReachedStart /\ ConfigOf(trig.button).mode = "interrupt") =>
        /\ trig.atCp = <<>>
        /\ trig.atEm = AllSilent
        /\ trig.result = "played"
        /\ currently_playing = <<[btn |-> trig.button, ch |-> trig.ch]>>
        /\ emitting = [AllSilent EXCEPT ![trig.ch] = trig.button]

\* C5 witness: an interrupt button started while every channel was emitting,
\* one of them a playback that currently_playing had no entry for
C5_Witness ==
    /\ ReachedStart
    /\ ConfigOf(trig.button).mode = "interrupt"
    /\ FreeChannels(trig.em) = {}
    /\ \E c \in Channels : \A e \in Entries(trig.cp) : e.ch # c
    /\ trig.result = "played"

\* C6: no two entries of currently_playing refer to the same channel.
C6_ChannelOwnershipUnique ==
    \A j, k \in 1..Len(currently_playing) :
        j # k => currently_playing[j].ch # currently_playing[k].ch

\* C7: when an exclusive button begins playback, no assignment of another
\* button is live at the start attempt, and none is left in currently_playing.
C7_ExclusiveStartsAlone ==
    (trig.result = "played" /\ ConfigOf(trig.button).mode = "exclusive") =>
        /\ \A e \in LiveEntries(trig.cp, trig.atEm) : e.btn = trig.button
        /\ \A e \in LiveEntries(trig.atCp, trig.atEm) : e.btn = trig.button
        /\ CpKeys(currently_playing) = {trig.button}

\* C7 witness: an exclusive button started from a table that still held the
\* finished assignment of another button
C7_Witness ==
    /\ trig.result = "played"
    /\ ConfigOf(trig.button).mode = "exclusive"
    /\ \E e \in Entries(trig.cp) : e.btn # trig.button

\* C8: play_sound(s) of a button s with self-behaviour queue, called while the
\* playback of s is still emitting, is aborted with no state change.
C8_QueueIsIgnore ==
    (/\ Arbitrated
     /\ ConfigOf(trig.button).self = "queue"
     /\ Playing(trig.em, trig.button)) =>
        /\ currently_playing = trig.cp
        /\ emitting = trig.em

\* C9: the self-behaviour step of play_sound(s) treats s as busy only if s has
\* an assignment whose recorded playback is still emitting: otherwise the call
\* is not ignored and the step stops no channel.
C9_SelfStepOnlyWhenPlaying ==
    (Arbitrated /\ ~ReallyBusy(trig.cp, trig.em, trig.button)) =>
        /\ trig.result # "ignored"
        /\ SelfStep(trig.cp, trig.em, trig.button, ConfigOf(trig.button).self).em = trig.em

\* a step of check_buttons (Finish leaves pollIdx and running alone)
PollStep == pollIdx' # pollIdx \/ running' # running

\* C10: check_buttons calls play_sound(i) on exactly the iterations in which
\* pin i is sampled low after its previous sample was high (the level assumed
\* before the first sample is high, line 60): never while the button is held,
\* never on a release, whatever play_sound did; the remembered button_states
\* are the last samples.
C10_OneTriggerPerPressEdge ==
    /\ [](running => button_states = level)
    /\ [][PollStep =>
            /\ (trig'.result # "none") <=> (level[pollIdx] /\ ~level'[pollIdx])
            /\ trig'.result # "none" => trig'.button = pollIdx]_vars

\* C10 witness: a button is pressed again while its sound still plays, and
\* that second press edge was delivered (and ignored by play_sound)
C10_Witness ==
    /\ trig.result = "ignored"
    /\ ~level[trig.button]
    /\ ~button_states[trig.button]

\* C11: when play_sound reaches the start attempt with every channel emitting,
\* it reports the drop and records nothing: currently_playing and every channel
\* are as before the call, so every live assignment keeps its channel and
\* still plays.
C11_DropIsContained ==
    (ReachedStart /\ FreeChannels(trig.atEm) = {}) =>
        /\ trig.result = "dropped"
        /\ currently_playing = trig.atCp
        /\ emitting = trig.atEm
        /\ currently_playing = trig.cp
        /\ emitting = trig.em
        /\ LiveEntries(trig.cp, trig.em) = LiveEntries(currently_playing, emitting)

\* C11 witness: a trigger was dropped while the assignments of two other
\* buttons were live
C11_Witness ==
    /\ trig.result = "dropped"
    /\ \E e, f \in LiveEntries(currently_playing, emitting) :
          /\ e.btn # f.btn
          /\ e.btn # trig.button
          /\ f.btn # trig.button
          /\ ReallyBusy(currently_playing, emitting, e.btn)
          /\ ReallyBusy(currently_playing, emitting, f.btn)

\* the pool with source 1 alone, started from the empty pool
OnlySource1Cp == <<[btn |-> 1, ch |-> 0]>>
OnlySource1Em == [AllSilent EXCEPT ![0] = 1]

\* C12: with the scenario table, a trigger of 1 on the empty pool starts 1; a
\* trigger of 4 in that state is blocked and leaves source 1 the only playing
\* source; a trigger of 0 in that state stops 1 and starts 0, which is then
\* the only playing source.
C12_Scenario ==
    /\ (trig.button = 1 /\ trig.cp = <<>> /\ trig.em = AllSilent) =>
          /\ trig.result = "played"
          /\ currently_playing = OnlySource1Cp
          /\ emitting = OnlySource1Em
    /\ (trig.button = Source4 /\ trig.cp = OnlySource1Cp /\ trig.em = OnlySource1Em) =>
          /\ trig.result = "blocked"
          /\ currently_playing = OnlySource1Cp
          /\ emitting = OnlySource1Em
    /\ (trig.button = 0 /\ trig.cp = OnlySource1Cp /\ trig.em = OnlySource1Em) =>
          /\ trig.result = "played"
          /\ currently_playing = <<[btn |-> 0, ch |-> trig.ch]>>
          /\ emitting = [AllSilent EXCEPT ![trig.ch] = 0]

\* C12 witness: the end of the scenario, source 0 started over source 1
C12_Witness ==
    /\ trig.button = 0
    /\ trig.cp = OnlySource1Cp
    /\ trig.em = OnlySource1Em
    /\ trig.result = "played"
    /\ ~Playing(emitting, 1)
    /\ Playing(emitting, 0)

\* C13: no button has two entries in currently_playing; and a second
\* play_sound(s) of an overlay/restart button s, called while its first
\* playback is still emitting, starts the sample again and leaves exactly one
\* assignment of s and exactly one channel emitting its sample.
C13_OnePlaybackPerSource ==
    /\ \A j, k \in 1..Len(currently_playing) :
          j # k => currently_playing[j].btn # currently_playing[k].btn
    /\ (/\ Arbitrated
        /\ ConfigOf(trig.button).mode = "overlay"
        /\ ConfigOf(trig.button).self = "restart"
        /\ ReallyBusy(trig.cp, trig.em, trig.button)) =>
          /\ trig.result = "played"
          /\ ChannelsOf(emitting, trig.button) = {trig.ch}
          /\ CpChannel(currently_playing, trig.button) = trig.ch

\* the last play_sound call went through its interaction-mode step
PassedModeStep == trig.result \in {"played", "dropped", "blocked"}

\* C14: after a play_sound call that went through its interaction-mode step,
\* currently_playing holds no entry whose recorded playback had already ended
\* before the call (the entry the call itself wrote for its button aside).
C14_StaleEntriesReclaimed ==
    PassedModeStep =>
        \A e \in Entries(trig.cp) :
            trig.em[e.ch] # e.btn =>
                \/ e \notin Entries(currently_playing)
                \/ (e.btn = trig.button /\ trig.result = "played")

\* a restart button in overlay or interrupt mode was triggered while playing
RestartWhilePlaying ==
    /\ Arbitrated
    /\ ConfigOf(trig.button).self = "restart"
    /\ ConfigOf(trig.button).mode \in {"overlay", "interrupt"}
    /\ ReallyBusy(trig.cp, trig.em, trig.button)

C16_MissingEntryIsDefault ==
    /\ trig.result # "error"
    /\ running

\* C17: play_sound(i) for a button whose sound is None returns "no sound
\* available" and changes neither currently_playing nor any channel, whatever
\* the button's mode; no other call returns that way.
C17_NoSampleIsInert ==
    /\ (trig.button \in Buttons /\ ~sounds[trig.button + 1]) =>
          /\ trig.result = "no_sound"
          /\ currently_playing = trig.cp
          /\ emitting = trig.em
    /\ trig.result = "no_sound" => ~sounds[trig.button + 1]

\* C17 witness: an interrupt button without a sample was triggered while
\* another button was playing
C17_Witness ==
    /\ trig.result = "no_sound"
    /\ ConfigOf(trig.button).mode = "interrupt"
    /\ trig.button \in DOMAIN track_config
    /\ \E o \in Buttons : ReallyBusy(currently_playing, emitting, o)

\* C18: whatever a play_sound call of check_buttons ended with, run() is
\* still polling after it: the loop has moved on to the next pin.
C18_PollLoopGoesOn ==
    trig.result # "none" =>
        /\ running
        /\ pollIdx = (trig.button + 1) % NumButtons

\* C19: every channel that emits is the channel recorded in currently_playing
\* for the button whose sample it emits, and no entry points at a channel that
\* emits another button's sample.
C19_NoUntrackedPlayback ==
    /\ \A c \in Channels :
          emitting[c] # Silent =>
              [btn |-> emitting[c], ch |-> c] \in Entries(currently_playing)
    /\ \A e \in Entries(currently_playing) : emitting[e.ch] \in {Silent, e.btn}

\* C20: check_buttons handles the pins one at a time in ascending index; a
\* play_sound call it makes is for the pin at hand, starts from the
\* assignments and channels exactly as the previous iteration left them and
\* runs to completion within the iteration; an iteration without a press edge
\* touches neither.
C20_SerialInIndexOrder ==
    [][PollStep =>
        /\ running' => pollIdx' = (pollIdx + 1) % NumButtons
        /\ trig'.result # "none" =>
              /\ trig'.button = pollIdx
              /\ trig'.cp = currently_playing
              /\ trig'.em = emitting
              /\ running' =>
                    /\ currently_playing' = PlaySound(currently_playing, emitting, pollIdx).cp
                    /\ emitting' = PlaySound(currently_playing, emitting, pollIdx).em
        /\ trig'.result = "none" => UNCHANGED <<currently_playing, emitting>>]_vars

\* C20 witness: the last button was arbitrated on a pool in which all the
\* lower-numbered buttons, their pins sampled low, hold live assignments
\* or were turned away
C20_Witness ==
    /\ trig.button = NumButtons - 1
    /\ trig.result \in {"played", "blocked", "dropped"}
    /\ \A i \in Buttons : ~level[i]
    /\ \E i \in Buttons : i < trig.button /\ ReallyBusy(trig.cp, trig.em, i)

====
